---- MODULE Spec2Model ----
(***************************************************************************)
(* Discover Portugal API (src/main.py, src/schemas.py): the request        *)
(* handlers over the "event" and "rsvp" collections of a document store.   *)
(*                                                                         *)
(* State: the two collections (in insertion order), whether the store is   *)
(* configured (db) and reachable (storeUp), and the response to the most   *)
(* recent request together with that request.  `posted` is a history of    *)
(* the successful POST /api/events calls (payload and returned id).        *)
(***************************************************************************)
EXTENDS Integers, Sequences, FiniteSets, TLC

VARIABLES db, storeUp, events, rsvps, resp, posted

vars == <<db, storeUp, events, rsvps, resp, posted>>

\* resp records the most recent request served: the operation, its inputs,
\* and the status and body of the response
Served(op, req, r) == [op |-> op, req |-> req, status |-> r.status, body |-> r.body]

(***************************************************************************)
(* Bounds of the exploration.                                              *)
(***************************************************************************)
MaxEvents == 2
MaxRsvps == 2
\* number of collections other applications keep in the same database
ExtraCollections == 11
\* SpecBulk: length of the freely chosen prefix of each collection, and the
\* collection sizes it fills up to (beyond the limits of GET /api/my)
BulkMixed == 1
BulkMaxEvents == 101
BulkMaxRsvps == 201

(***************************************************************************)
(* Values.                                                                 *)
(***************************************************************************)
\* Python None in a string-typed field
None == "<None>"
\* Python None in a text field (title, description, q are character sequences)
NoneText == <<None>>
\* Python None where a document is expected (find_one miss, dict.get miss)
NoneDoc == [none |-> TRUE]

\* truthiness of an Optional[str] (`if category:`)
Truthy(s) == s # None /\ s # ""
TruthyText(s) == s # NoneText /\ s # <<>>

\* A bson ObjectId (12 bytes, abstracted to the number n).
ObjectIdOf(n) == [type |-> "ObjectId", hex |-> TRUE, n |-> n, upper |-> FALSE]
\* A string of 24 hex digits denoting n; its letters are lower or upper case.
HexStr(n, upper) == [type |-> "str", hex |-> TRUE, n |-> n, upper |-> upper]
\* A string that is not 24 hex digits
BadStr == [type |-> "str", hex |-> FALSE, n |-> 0, upper |-> FALSE]

\* ObjectId.is_valid(v): an ObjectId, or a 24-digit hex string of either case
is_valid(v) == v.type = "ObjectId" \/ (v.type = "str" /\ v.hex)
\* ObjectId(v) for a valid v (raises InvalidId otherwise: see the callers)
ObjectId(v) == ObjectIdOf(v.n)
\* str(v): an ObjectId prints as lower-case hex; a str is itself
str(v) == IF v.type = "ObjectId" THEN HexStr(v.n, FALSE) ELSE v

\* Timestamps.  JSON carries ISO-8601 text, naive or with a "Z" suffix; the
\* schema parses it to a datetime; documents read back hold naive datetimes.
IsoText(t, form) == [type |-> "str", t |-> t, form |-> form]
Datetime(t) == [type |-> "datetime", t |-> t, form |-> "naive"]
NoneTime == [type |-> "NoneType", t |-> 0, form |-> "naive"]
parse_datetime(v) == IF v.type = "str" THEN Datetime(v.t) ELSE v
isoformat(v) == IsoText(v.t, "naive")
isinstance_datetime(v) == v.type = "datetime"

\* Characters of the text fields; Lower folds case.
Lower(c) == IF c = "A" THEN "a" ELSE IF c = "B" THEN "b" ELSE c

X == "x@mail.pt"
Y == "y@mail.pt"
ValidEmails == {X, Y}

(***************************************************************************)
(* Schema layer (src/schemas.py).                                          *)
(***************************************************************************)
\* Location: lat and lng required, the rest optional
Location(city) ==
    [name |-> None, address |-> None, city |-> city, lat |-> 38, lng |-> -9]

\* Event(**payload): the required fields are present and organizer_email is
\* an EmailStr
EventValid(payload) ==
    /\ payload.title # NoneText
    /\ payload.category # None
    /\ payload.start_time.type = "str"
    /\ payload.organizer_name # None
    /\ payload.organizer_email \in ValidEmails

\* the validated Event model: timestamps parsed to datetime
EventSchema(payload) ==
    [title |-> payload.title, description |-> payload.description,
     category |-> payload.category,
     start_time |-> parse_datetime(payload.start_time),
     end_time |-> parse_datetime(payload.end_time),
     location |-> payload.location, image_url |-> payload.image_url,
     organizer_name |-> payload.organizer_name,
     organizer_email |-> payload.organizer_email]

\* Rsvp(**payload): event_id is any str, user_email an EmailStr
RsvpValid(payload) ==
    /\ payload.event_id.type = "str"
    /\ payload.user_name # None
    /\ payload.user_email \in ValidEmails

\* the validated Rsvp model (status defaults to "going")
RsvpSchema(payload) ==
    [event_id |-> payload.event_id, user_name |-> payload.user_name,
     user_email |-> payload.user_email,
     status |-> IF payload.status = None THEN "going" ELSE payload.status]

(***************************************************************************)
(* The document store as the handlers use it.                              *)
(***************************************************************************)
Collection(collection_name) ==
    IF collection_name = "event" THEN events ELSE rsvps

\* The store assigns each inserted document a fresh ObjectId: the k-th event
\* gets 2k, the k-th rsvp 2k+1.
NewObjectId(collection_name) ==
    IF collection_name = "event" THEN ObjectIdOf(2 * (Len(events) + 1))
    ELSE ObjectIdOf(2 * (Len(rsvps) + 1) + 1)

\* datetime.now at insert time
utcnow == Datetime(9)

\* a regular expression the store accepts: "(" alone is an unbalanced group
RegexValid(pattern) == \A i \in 1..Len(pattern) : pattern[i] # "("

\* one pattern character against one text character ("." matches any)
RegexCharMatch(pc, tc, options) ==
    \/ pc = "."
    \/ IF options = "i" THEN Lower(pc) = Lower(tc) ELSE pc = tc

\* {"$regex": pattern, "$options": options} on a string field: an unanchored
\* search; a null field never matches
RegexSearch(pattern, text, options) ==
    /\ text # NoneText
    /\ \E k \in 0..(Len(text) - Len(pattern)) :
          \A j \in 1..Len(pattern) : RegexCharMatch(pattern[j], text[k + j], options)

EmptyFilter == [k \in {} |-> None]

\* one key of a filter against a document
MatchesKey(doc, k, v) ==
    CASE k = "$or" -> \E i \in 1..Len(v) :
                         RegexSearch(v[i].regex, doc[v[i].field], v[i].options)
      [] k = "location.city" -> doc.location.city = v
      [] k = "_id.$in" -> doc._id \in v
      [] OTHER -> doc[k] = v

\* a document against a filter: every key must match
Matches(doc, filter_q) ==
    \A k \in DOMAIN filter_q : MatchesKey(doc, k, filter_q[k])

\* collection.find(filter): the matching documents, in insertion order
find(collection_name, filter_q) ==
    SelectSeq(Collection(collection_name), LAMBDA d : Matches(d, filter_q))

\* cursor.limit(n)
Limit(docs, n) == SubSeq(docs, 1, IF Len(docs) < n THEN Len(docs) ELSE n)

\* collection.find_one(filter): the first match, or None
find_one(collection_name, filter_q) ==
    LET found == find(collection_name, filter_q)
    IN  IF found = <<>> THEN NoneDoc ELSE found[1]

\* the outcome of a block of code: a value, or a raised exception
Return(v) == [raised |-> FALSE, exc |-> "", value |-> v]
Raise(e) == [raised |-> TRUE, exc |-> e, value |-> NoneDoc]

\* the document the store holds for a model of the collection
Document(collection_name, oid, created_at, data) ==
    IF collection_name = "event"
    THEN [_id |-> oid, created_at |-> created_at,
          title |-> data.title, description |-> data.description,
          category |-> data.category, start_time |-> data.start_time,
          end_time |-> data.end_time, location |-> data.location,
          image_url |-> data.image_url, organizer_name |-> data.organizer_name,
          organizer_email |-> data.organizer_email]
    ELSE [_id |-> oid, created_at |-> created_at,
          event_id |-> data.event_id, user_name |-> data.user_name,
          user_email |-> data.user_email, status |-> data.status]

\* database.create_document: stamps the creation time and inserts; returns
\* the new identifier as a string
create_document(collection_name, data) ==
    IF db = None THEN Raise("Database not available")
    ELSE IF ~storeUp THEN Raise("StorageError")
    ELSE LET oid == NewObjectId(collection_name)
             doc == Document(collection_name, oid, utcnow, data)
         IN  [raised |-> FALSE, exc |-> "", value |-> str(oid), doc |-> doc]

\* whether the store can evaluate the filter
FilterValid(filter_q) ==
    \A k \in DOMAIN filter_q :
        k = "$or" => \A i \in 1..Len(filter_q[k]) : RegexValid(filter_q[k][i].regex)

\* database.get_documents: up to `limit` documents matching the filter
get_documents(collection_name, filter_dict, limit) ==
    IF db = None THEN Raise("Database not available")
    ELSE IF ~storeUp THEN Raise("StorageError")
    ELSE IF ~FilterValid(filter_dict) THEN Raise("OperationFailure")
    ELSE Return(Limit(find(collection_name, filter_dict), limit))

(***************************************************************************)
(* Serialization (src/main.py serialize_doc).                              *)
(***************************************************************************)
\* isoformat() of a value that is a datetime, the value itself otherwise
IsoIfDatetime(v) == IF isinstance_datetime(v) THEN isoformat(v) ELSE v

\* faulty variant of serialize_doc: the datetime loop is left out
serialize_doc_no_dates(doc) ==
    IF doc = NoneDoc THEN doc
    ELSE IF "start_time" \in DOMAIN doc
    THEN Document("event", str(doc._id), doc.created_at, doc)
    ELSE Document("rsvp", str(doc._id), doc.created_at, doc)

\* `_id` becomes its string; every top-level value that is a datetime (an
\* Event has start_time, end_time and created_at, an Rsvp created_at) becomes
\* its isoformat(); nested values stay as they are
serialize_doc(doc) ==
    IF doc = NoneDoc THEN doc
    ELSE IF "start_time" \in DOMAIN doc
    THEN [_id |-> str(doc._id), created_at |-> IsoIfDatetime(doc.created_at),
          title |-> doc.title, description |-> doc.description,
          category |-> doc.category,
          start_time |-> IsoIfDatetime(doc.start_time),
          end_time |-> IsoIfDatetime(doc.end_time),
          location |-> doc.location, image_url |-> doc.image_url,
          organizer_name |-> doc.organizer_name,
          organizer_email |-> doc.organizer_email]
    ELSE [_id |-> str(doc._id), created_at |-> IsoIfDatetime(doc.created_at),
          event_id |-> doc.event_id, user_name |-> doc.user_name,
          user_email |-> doc.user_email, status |-> doc.status]

\* the list with the elements f[1], ..., f[n]
List(f, n) == SubSeq(f, 1, n)

\* [serialize_doc(d) for d in docs]
SerializeAll(docs) == List([i \in 1..Len(docs) |-> serialize_doc(docs[i])], Len(docs))

\* an HTTP response
Response(status, body) == [status |-> status, body |-> body]
HTTPException(status_code, detail) == Response(status_code, detail)

(***************************************************************************)
(* Request handlers (src/main.py).  Each returns the HTTP response; the    *)
(* two POST handlers also return the documents they insert.                *)
(***************************************************************************)
\* FastAPI's answer to a body or query parameter the declared types reject
ValidationError == Response(422, "validation error")

read_root == Response(200, "Discover Portugal API is running")

hello == Response(200, "Olá from Discover Portugal backend!")

\* db.list_collection_names(): the collections other applications keep in
\* the database, and this application's once they hold a document
list_collection_names(others) ==
    others \o (IF events # <<>> THEN <<"event">> ELSE <<>>)
           \o (IF rsvps # <<>> THEN <<"rsvp">> ELSE <<>>)

CollectionsShown == 10

\* faulty variant of test_database: list_collection_names is called outside
\* any try block, so a store error escapes as a server error
test_database_unguarded(others) ==
    IF db # None /\ ~storeUp THEN HTTPException(500, "Internal Server Error")
    ELSE IF db # None
    THEN Response(200, [backend |-> "Running", database |-> "Connected & Working",
                        connection_status |-> "Connected",
                        collections |-> Limit(list_collection_names(others), CollectionsShown)])
    ELSE Response(200, [backend |-> "Running",
                        database |-> "Available but not initialized",
                        connection_status |-> "Not Connected", collections |-> <<>>])

\* the status payload of GET /test (status strings without their leading
\* symbol; database_url and database_name left out)
Status(database, connection_status, collections) ==
    [backend |-> "Running", database |-> database,
     connection_status |-> connection_status, collections |-> collections]

test_database(others) ==
    IF db # None
    THEN IF storeUp
         THEN Response(200, Status("Connected & Working", "Connected",
                                   Limit(list_collection_names(others), CollectionsShown)))
         ELSE Response(200, Status("Connected but Error: StorageError", "Connected", <<>>))
    ELSE Response(200, Status("Available but not initialized", "Not Connected", <<>>))

create_event(event) ==
    IF ~EventValid(event) THEN ValidationError @@ [insert |-> <<>>]
    ELSE LET r == create_document("event", EventSchema(event))
         IN  IF r.raised
             THEN HTTPException(400, r.exc) @@ [insert |-> <<>>]
             ELSE Response(200, [_id |-> r.value]) @@ [insert |-> <<r.doc>>]

EventsLimitMax == 200

list_events(category, city, q, limit) ==
    IF limit < 1 \/ limit > EventsLimitMax THEN ValidationError
    ELSE LET filter_q ==
                (IF Truthy(category) THEN "category" :> category ELSE EmptyFilter)
             @@ (IF Truthy(city) THEN "location.city" :> city ELSE EmptyFilter)
             @@ (IF TruthyText(q)
                 THEN "$or" :> << [field |-> "title", regex |-> q, options |-> "i"],
                                  [field |-> "description", regex |-> q, options |-> "i"] >>
                 ELSE EmptyFilter)
             r == get_documents("event", filter_q, limit)
         IN  IF r.raised THEN HTTPException(400, r.exc)
             ELSE Response(200, SerializeAll(r.value))

\* the try block of get_event
get_event_try(event_id) ==
    IF ~is_valid(event_id) THEN Raise("InvalidId")
    ELSE IF ~storeUp THEN Raise("StorageError")
    ELSE LET doc == find_one("event", "_id" :> ObjectId(event_id))
         IN  IF doc = NoneDoc THEN Raise("HTTPException 404: Event not found")
             ELSE Return(serialize_doc(doc))

\* faulty variant of get_event: no except clause, so whatever the try block
\* raises escapes as a server error
get_event_uncaught(event_id) ==
    IF db = None THEN HTTPException(500, "Database not configured")
    ELSE LET r == get_event_try(event_id)
         IN  IF r.raised THEN HTTPException(500, "Internal Server Error")
             ELSE Response(200, r.value)

\* `except Exception` catches whatever the try block raises, the
\* HTTPException of the 404 included
get_event(event_id) ==
    IF db = None THEN HTTPException(500, "Database not configured")
    ELSE LET r == get_event_try(event_id)
         IN  IF r.raised THEN HTTPException(400, r.exc)
             ELSE Response(200, r.value)

\* faulty variant of create_rsvp: refuses an event_id that names no stored
\* Event
create_rsvp_checked(rsvp) ==
    IF ~RsvpValid(rsvp) THEN ValidationError @@ [insert |-> <<>>]
    ELSE LET r == create_document("rsvp", RsvpSchema(rsvp))
             known == \E i \in 1..Len(events) : str(events[i]._id) = rsvp.event_id
         IN  IF r.raised \/ ~known
             THEN HTTPException(400, "no such event") @@ [insert |-> <<>>]
             ELSE Response(200, [_id |-> r.value]) @@ [insert |-> <<r.doc>>]

create_rsvp(rsvp) ==
    IF ~RsvpValid(rsvp) THEN ValidationError @@ [insert |-> <<>>]
    ELSE LET r == create_document("rsvp", RsvpSchema(rsvp))
         IN  IF r.raised
             THEN HTTPException(400, r.exc) @@ [insert |-> <<>>]
             ELSE Response(200, [_id |-> r.value]) @@ [insert |-> <<r.doc>>]

RsvpsLimitMax == 300

\* an absent Optional[str] identifier
NoneId == [type |-> "NoneType", hex |-> FALSE, n |-> 0, upper |-> FALSE]

list_rsvps(user_email, event_id, limit) ==
    IF limit < 1 \/ limit > RsvpsLimitMax THEN ValidationError
    ELSE LET filter_q ==
                (IF Truthy(user_email) THEN "user_email" :> user_email ELSE EmptyFilter)
             @@ (IF event_id # NoneId THEN "event_id" :> event_id ELSE EmptyFilter)
             r == get_documents("rsvp", filter_q, limit)
         IN  IF r.raised THEN HTTPException(400, r.exc)
             ELSE Response(200, SerializeAll(r.value))

MyEventsLimit == 100
MyRsvpsLimit == 200

\* dict.get(key): the value, or None
dict_get(d, key) == IF key \in DOMAIN d THEN d[key] ELSE NoneDoc

\* rd["event"] = ev on a serialized Rsvp
Hydrated(rd, ev) ==
    [_id |-> rd._id, created_at |-> rd.created_at, event_id |-> rd.event_id,
     user_name |-> rd.user_name, user_email |-> rd.user_email,
     status |-> rd.status, event |-> ev]

\* faulty variant of my_overview_try: the created events are not filtered by
\* organizer_email
my_overview_try_unfiltered(email) ==
    IF ~storeUp THEN Raise("StorageError")
    ELSE LET created == Limit(find("event", EmptyFilter), MyEventsLimit)
             found_rsvps == Limit(find("rsvp", "user_email" :> email), MyRsvpsLimit)
         IN  Return([created_events |-> SerializeAll(created),
                     rsvps |-> List([i \in 1..Len(found_rsvps) |->
                                       Hydrated(serialize_doc(found_rsvps[i]), NoneDoc)],
                                    Len(found_rsvps))])

\* the try block of my_overview
my_overview_try(email) ==
    IF ~storeUp THEN Raise("StorageError")
    ELSE LET created == Limit(find("event", "organizer_email" :> email), MyEventsLimit)
             found_rsvps == Limit(find("rsvp", "user_email" :> email), MyRsvpsLimit)
             event_ids == {ObjectId(found_rsvps[i].event_id) :
                              i \in {j \in 1..Len(found_rsvps) : is_valid(found_rsvps[j].event_id)}}
             found == IF event_ids # {} THEN find("event", "_id.$in" :> event_ids) ELSE <<>>
             events_by_id ==
                 [key \in {str(found[i]._id) : i \in 1..Len(found)} |->
                     serialize_doc(found[CHOOSE i \in 1..Len(found) : str(found[i]._id) = key])]
             hydrated_rsvps ==
                 List([i \in 1..Len(found_rsvps) |->
                          Hydrated(serialize_doc(found_rsvps[i]),
                                   dict_get(events_by_id, found_rsvps[i].event_id))],
                      Len(found_rsvps))
         IN  Return([created_events |-> SerializeAll(created), rsvps |-> hydrated_rsvps])

my_overview(email) ==
    IF db = None THEN HTTPException(500, "Database not configured")
    ELSE LET r == my_overview_try(email)
         IN  IF r.raised THEN HTTPException(400, r.exc)
             ELSE Response(200, r.value)

(***************************************************************************)
(* Requests.                                                               *)
(***************************************************************************)
EventPayload(title, description, category, city, start, end_time, email) ==
    [title |-> title, description |-> description, category |-> category,
     start_time |-> start, end_time |-> end_time, location |-> Location(city),
     image_url |-> None, organizer_name |-> "Ana", organizer_email |-> email]

\* title matches "a" case-insensitively; no end_time
E1 == EventPayload(<<"A", "b">>, NoneText, "Food", "Lisbon", IsoText(1, "Z"), NoneTime, X)
\* only the description matches "a"; end_time before start_time
E2 == EventPayload(<<"b">>, <<"b", "a">>, "food", None, IsoText(2, "naive"), IsoText(1, "naive"), Y)
\* neither title nor description matches "a"
E3 == EventPayload(<<"b">>, NoneText, "Food", "Porto", IsoText(1, "naive"), IsoText(3, "Z"), X)
\* rejected by the schema: organizer_email is no email address
EBad == EventPayload(<<"b">>, NoneText, "Food", "Porto", IsoText(1, "naive"), NoneTime, "not-an-email")

ValidEventPayloads == {E1, E2, E3}
EventPayloads == ValidEventPayloads \cup {EBad}

RsvpPayload(event_id, email, status) ==
    [event_id |-> event_id, user_name |-> "Rui", user_email |-> email, status |-> status]

\* the identifier of the first event, as the store prints it
R1 == RsvpPayload(HexStr(2, FALSE), X, None)
\* the same identifier written in upper-case hex digits
R2 == RsvpPayload(HexStr(2, TRUE), X, "interested")
\* not an identifier at all
R3 == RsvpPayload(BadStr, Y, "going")
\* rejected by the schema
RBad == RsvpPayload(HexStr(2, FALSE), "not-an-email", None)

ValidRsvpPayloads == {R1, R2, R3}
RsvpPayloads == ValidRsvpPayloads \cup {RBad}

ListEventsRequest(category, city, q, limit) ==
    [category |-> category, city |-> city, q |-> q, limit |-> limit]

ListEventsRequests ==
    { ListEventsRequest(None, None, NoneText, 50),
      ListEventsRequest("Food", None, NoneText, 50),
      ListEventsRequest(None, "Lisbon", NoneText, 50),
      ListEventsRequest(None, None, <<"a">>, 50),
      ListEventsRequest(None, None, <<".">>, 50),
      ListEventsRequest(None, None, <<"(">>, 50),
      ListEventsRequest("Food", "Lisbon", <<"a">>, 1),
      ListEventsRequest(None, None, NoneText, 1),
      ListEventsRequest(None, None, NoneText, 0),
      ListEventsRequest(None, None, NoneText, 201) }

EventIdInputs ==
    {HexStr(2 * k, FALSE) : k \in 1..MaxEvents} \cup {HexStr(2, TRUE), BadStr}

ListRsvpsRequest(user_email, event_id, limit) ==
    [user_email |-> user_email, event_id |-> event_id, limit |-> limit]

ListRsvpsRequests ==
    { ListRsvpsRequest(None, NoneId, 100),
      ListRsvpsRequest(X, NoneId, 100),
      ListRsvpsRequest(None, HexStr(2, FALSE), 100),
      ListRsvpsRequest(X, HexStr(2, TRUE), 1),
      ListRsvpsRequest(None, NoneId, 301) }

\* the names of the collections of other applications
OtherCollections == List([i \in 1..ExtraCollections |-> "other"], ExtraCollections)

(***************************************************************************)
(* The state machine.                                                      *)
(***************************************************************************)
NoResponse == [op |-> "none", req |-> NoneDoc, status |-> 0, body |-> NoneDoc]

\* DATABASE_URL may be unset: the process then runs with db = None
Init ==
    /\ db \in {None, "configured"}
    /\ storeUp = TRUE
    /\ events = <<>>
    /\ rsvps = <<>>
    /\ resp = NoResponse
    /\ posted = <<>>

\* the store becomes unreachable, or reachable again, between two requests
StoreAvailability ==
    /\ db # None
    /\ storeUp' = ~storeUp
    /\ resp' = NoResponse
    /\ UNCHANGED <<db, events, rsvps, posted>>

ReadRoot ==
    /\ resp' = Served("read_root", NoneDoc, read_root)
    /\ UNCHANGED <<db, storeUp, events, rsvps, posted>>

Hello ==
    /\ resp' = Served("hello", NoneDoc, hello)
    /\ UNCHANGED <<db, storeUp, events, rsvps, posted>>

TestDatabase ==
    \E others \in {<<>>, OtherCollections} :
        /\ resp' = Served("test_database", [others |-> Len(others)], test_database(others))
        /\ UNCHANGED <<db, storeUp, events, rsvps, posted>>

\* POST /api/events with the given body
PostEvent(payload) ==
    LET r == create_event(payload)
    IN  /\ events' = events \o r.insert
        /\ resp' = Served("create_event", payload, r)
        /\ posted' = IF r.status = 200
                     THEN Append(posted, [id |-> r.body._id, payload |-> payload])
                     ELSE posted
        /\ UNCHANGED <<db, storeUp, rsvps>>

CreateEvent ==
    /\ Len(events) < MaxEvents
    /\ \E payload \in EventPayloads : PostEvent(payload)

ListEvents ==
    \E req \in ListEventsRequests :
        /\ resp' = Served("list_events", req,
                          list_events(req.category, req.city, req.q, req.limit))
        /\ UNCHANGED <<db, storeUp, events, rsvps, posted>>

GetEvent ==
    \E event_id \in EventIdInputs :
        /\ resp' = Served("get_event", [event_id |-> event_id], get_event(event_id))
        /\ UNCHANGED <<db, storeUp, events, rsvps, posted>>

\* faulty variant of PostRsvp: an Rsvp of the same user for the same event is
\* replaced instead of kept
PostRsvpUpsert(payload) ==
    LET r == create_rsvp(payload)
        kept == SelectSeq(rsvps, LAMBDA d : ~(d.user_email = payload.user_email
                                              /\ d.event_id = payload.event_id))
    IN  /\ rsvps' = kept \o r.insert
        /\ resp' = Served("create_rsvp", payload, r)
        /\ UNCHANGED <<db, storeUp, events, posted>>

\* POST /api/rsvps with the given body
PostRsvp(payload) ==
    LET r == create_rsvp(payload)
    IN  /\ rsvps' = rsvps \o r.insert
        /\ resp' = Served("create_rsvp", payload, r)
        /\ UNCHANGED <<db, storeUp, events, posted>>

CreateRsvp ==
    /\ Len(rsvps) < MaxRsvps
    /\ \E payload \in RsvpPayloads : PostRsvp(payload)

ListRsvps ==
    \E req \in ListRsvpsRequests :
        /\ resp' = Served("list_rsvps", req,
                          list_rsvps(req.user_email, req.event_id, req.limit))
        /\ UNCHANGED <<db, storeUp, events, rsvps, posted>>

MyOverview ==
    \E email \in ValidEmails :
        /\ resp' = Served("my_overview", [email |-> email], my_overview(email))
        /\ UNCHANGED <<db, storeUp, events, rsvps, posted>>

Next ==
    \/ StoreAvailability
    \/ ReadRoot
    \/ Hello
    \/ TestDatabase
    \/ CreateEvent
    \/ ListEvents
    \/ GetEvent
    \/ CreateRsvp
    \/ ListRsvps
    \/ MyOverview

Spec == Init /\ [][Next]_vars

(***************************************************************************)
(* SpecBulk: a configured, reachable store filled past the limits of       *)
(* GET /api/my.  The first BulkMixed documents of a collection are any     *)
(* valid payloads, the rest repeat one payload of organizer/user X; one    *)
(* collection grows long while the other stays within BulkMixed documents. *)
(***************************************************************************)
InitBulk ==
    /\ db = "configured"
    /\ storeUp = TRUE
    /\ events = <<>>
    /\ rsvps = <<>>
    /\ resp = NoResponse
    /\ posted = <<>>

CreateEventBulk ==
    /\ Len(events) < BulkMaxEvents
    /\ Len(rsvps) <= BulkMixed
    /\ \E payload \in (IF Len(events) < BulkMixed THEN ValidEventPayloads ELSE {E1}) :
          PostEvent(payload)

CreateRsvpBulk ==
    /\ Len(rsvps) < BulkMaxRsvps
    /\ Len(events) <= BulkMixed
    /\ \E payload \in (IF Len(rsvps) < BulkMixed THEN ValidRsvpPayloads ELSE {R1}) :
          PostRsvp(payload)

NextBulk ==
    \/ CreateEventBulk
    \/ CreateRsvpBulk
    \/ MyOverview

SpecBulk == InitBulk /\ [][NextBulk]_vars

(***************************************************************************)
(* Properties.  `resp` is the response to the most recent request, and the *)
(* store has not changed since it was served.                              *)
(***************************************************************************)
\* the stored Events the identifier string denotes
EventsDenotedBy(event_id) ==
    {j \in 1..Len(events) : is_valid(event_id) /\ events[j]._id = ObjectId(event_id)}

\* C1: GET /api/events/{id} with a well-formed identifier that matches no
\* stored Event, the store configured and reachable, responds 404.
C1_NotFoundIs404 ==
    ( /\ resp.op = "get_event"
      /\ db # None
      /\ storeUp
      /\ is_valid(resp.req.event_id)
      /\ EventsDenotedBy(resp.req.event_id) = {} )
    => resp.status = 404

\* C2: with the store not configured, GET / and GET /api/hello respond 200
\* and a valid GET or POST on /api/events responds 500.
C2_UnconfiguredIs500 ==
    db = None =>
        /\ resp.op \in {"read_root", "hello"} => resp.status = 200
        /\ (resp.op = "create_event" /\ EventValid(resp.req)) => resp.status = 500
        /\ (resp.op = "list_events" /\ resp.req.limit >= 1
                /\ resp.req.limit <= EventsLimitMax) => resp.status = 500

\* C3: every RSVP returned by GET /api/my carries the serialized Event its
\* event_id denotes when the event_id is well-formed and that Event is
\* stored, and null otherwise.
C3_Hydration ==
    (resp.op = "my_overview" /\ resp.status = 200) =>
        \A i \in 1..Len(resp.body.rsvps) :
            IF EventsDenotedBy(resp.body.rsvps[i].event_id) # {}
            THEN \E j \in EventsDenotedBy(resp.body.rsvps[i].event_id) :
                    resp.body.rsvps[i].event = serialize_doc(events[j])
            ELSE resp.body.rsvps[i].event = NoneDoc

\* the identifiers of the documents of a response list
ReturnedIds(docs) == {docs[i]._id : i \in 1..Len(docs)}

\* the identifiers, as strings, of the stored documents whose field is email
StoredIds(docs, field, email) ==
    {str(docs[i]._id) : i \in {j \in 1..Len(docs) : docs[j][field] = email}}

Smaller(a, b) == IF a < b THEN a ELSE b

\* C4 as stated: GET /api/my?email=x returns exactly the stored Events with
\* organizer_email = x and exactly the stored Rsvps with user_email = x.
C4_ExactlyMine ==
    (resp.op = "my_overview" /\ resp.status = 200) =>
        /\ ReturnedIds(resp.body.created_events)
              = StoredIds(events, "organizer_email", resp.req.email)
        /\ ReturnedIds(resp.body.rsvps) = StoredIds(rsvps, "user_email", resp.req.email)

\* C4 amended: a 200 response of GET /api/my?email=x returns only stored
\* Events with organizer_email = x, each once and serialized, all of them
\* when at most 100 match and 100 of them otherwise; likewise the Rsvps with
\* user_email = x, with 200.
C4_MineUpToLimit ==
    (resp.op = "my_overview" /\ resp.status = 200) =>
        LET created == resp.body.created_events
            mine == StoredIds(events, "organizer_email", resp.req.email)
            got == resp.body.rsvps
            mineRsvps == StoredIds(rsvps, "user_email", resp.req.email)
        IN  /\ ReturnedIds(created) \subseteq mine
            /\ Len(created) = Smaller(Cardinality(mine), MyEventsLimit)
            /\ Cardinality(ReturnedIds(created)) = Len(created)
            /\ \A i \in 1..Len(created) :
                  \E j \in 1..Len(events) : created[i] = serialize_doc(events[j])
            /\ ReturnedIds(got) \subseteq mineRsvps
            /\ Len(got) = Smaller(Cardinality(mineRsvps), MyRsvpsLimit)
            /\ Cardinality(ReturnedIds(got)) = Len(got)
            /\ \A i \in 1..Len(got) :
                  \E j \in 1..Len(rsvps) :
                      /\ got[i]._id = str(rsvps[j]._id)
                      /\ got[i].user_email = rsvps[j].user_email
                      /\ got[i].event_id = rsvps[j].event_id

\* more Events of one organizer are stored than GET /api/my returned
C4_Witness ==
    /\ resp.op = "my_overview"
    /\ resp.status = 200
    /\ Len(resp.body.created_events) = MyEventsLimit
    /\ Cardinality(StoredIds(events, "organizer_email", resp.req.email)) > MyEventsLimit
    /\ Len(resp.body.rsvps) = 1

\* the fields of an Event payload other than its timestamps
EventInputFields ==
    {"title", "description", "category", "location", "image_url",
     "organizer_name", "organizer_email"}

C6_MalformedIs400 ==
    (resp.op = "get_event" /\ ~is_valid(resp.req.event_id)) => resp.status = 400

\* C6 amended: a malformed event_id on GET /api/events/{id} yields 400 when
\* the store is configured (never 500 or 200), and 500 when it is not.
C6_MalformedIs400WhenConfigured ==
    (resp.op = "get_event" /\ ~is_valid(resp.req.event_id)) =>
        resp.status = IF db = None THEN 500 ELSE 400

\* a malformed event_id asked of a configured store that holds an Event
C6_Witness ==
    /\ resp.op = "get_event"
    /\ ~is_valid(resp.req.event_id)
    /\ db # None
    /\ events # <<>>
    /\ resp.status = 400

\* q occurs in text as a substring, letter case ignored
ContainsCI(q, text) ==
    /\ text # NoneText
    /\ \E k \in 0..(Len(text) - Len(q)) :
          \A j \in 1..Len(q) : Lower(q[j]) = Lower(text[k + j])

\* C7: GET /api/events returns at most `limit` documents, each of the given
\* category, of the given city, and with q a case-insensitive substring of
\* its title or description.
C7_Filters ==
    (resp.op = "list_events" /\ resp.status = 200) =>
        /\ Len(resp.body) <= resp.req.limit
        /\ \A i \in 1..Len(resp.body) :
              /\ resp.req.category # None => resp.body[i].category = resp.req.category
              /\ resp.req.city # None => resp.body[i].location.city = resp.req.city
              /\ resp.req.q # NoneText =>
                    \/ ContainsCI(resp.req.q, resp.body[i].title)
                    \/ ContainsCI(resp.req.q, resp.body[i].description)

\* C8: POST /api/rsvps with a valid payload, the store configured and
\* reachable, responds 200 and stores the Rsvp under the returned
\* identifier, whatever the collections hold.
C8_RsvpAlwaysStored ==
    (resp.op = "create_rsvp" /\ RsvpValid(resp.req) /\ db # None /\ storeUp) =>
        /\ resp.status = 200
        /\ rsvps # <<>>
        /\ LET d == rsvps[Len(rsvps)]
           IN  /\ str(d._id) = resp.body._id
               /\ d.event_id = resp.req.event_id
               /\ d.user_name = resp.req.user_name
               /\ d.user_email = resp.req.user_email
               /\ \A i \in 1..(Len(rsvps) - 1) : rsvps[i]._id # d._id

\* a second Rsvp of the same user for the same event_id, which names no
\* stored Event
C8_Witness ==
    /\ resp.op = "create_rsvp"
    /\ resp.status = 200
    /\ Len(rsvps) >= 2
    /\ rsvps[1].event_id = rsvps[2].event_id
    /\ rsvps[1].user_email = rsvps[2].user_email
    /\ EventsDenotedBy(rsvps[2].event_id) = {}

\* C9: GET /test responds 200 whatever the store does; a missing or failing
\* store shows as a degraded status string, and `collections` holds at most
\* 10 names.
C9_TestNeverFails ==
    resp.op = "test_database" =>
        /\ resp.status = 200
        /\ Len(resp.body.collections) <= CollectionsShown
        /\ db = None => resp.body.database = "Available but not initialized"
        /\ (db # None /\ ~storeUp) =>
              resp.body.database = "Connected but Error: StorageError"
        /\ (db # None /\ storeUp) =>
              /\ resp.body.database = "Connected & Working"
              /\ Len(resp.body.collections)
                    = Smaller(resp.req.others + (IF events # <<>> THEN 1 ELSE 0)
                                              + (IF rsvps # <<>> THEN 1 ELSE 0),
                              CollectionsShown)

\* the store raises on the call GET /test makes
C9_Witness ==
    /\ resp.op = "test_database"
    /\ db # None
    /\ ~storeUp
    /\ resp.status = 200

IsPrefix(s, t) == Len(s) <= Len(t) /\ SubSeq(t, 1, Len(s)) = s

\* C10: every step keeps each stored document in place and unchanged; a
\* successful POST /api/events adds exactly one Event, a successful POST
\* /api/rsvps exactly one Rsvp, and no other request changes a collection.
C10_AppendOnly ==
    [][ /\ IsPrefix(events, events')
        /\ IsPrefix(rsvps, rsvps')
        /\ Len(events') + Len(rsvps') <= Len(events) + Len(rsvps) + 1
        /\ Len(events') = Len(events) + 1
              <=> (resp'.op = "create_event" /\ resp'.status = 200)
        /\ Len(rsvps') = Len(rsvps) + 1
              <=> (resp'.op = "create_rsvp" /\ resp'.status = 200) ]_vars

\* a GET served from collections that both hold documents
C10_Witness ==
    /\ resp.op = "list_rsvps"
    /\ resp.status = 200
    /\ Len(resp.body) >= 2
    /\ events # <<>>

====
